---- MODULE Spec2Model ----
(***************************************************************************)
(* Model of chaptify.py: the catalog client (SpotifyAudiobookManager),     *)
(* the metadata manager (MetadataManager), process_file and the batch loop *)
(* of main.                                                                *)
(***************************************************************************)
EXTENDS Integers, Sequences, FiniteSets, TLC

\* ------------------------------------------------------------------------
\* Bounds of the model
\* ------------------------------------------------------------------------
MaxChapters == 3        \* chapters handed to one generate_ffmetadata call
MaxFiles == 2           \* input files of a batch
MaxPages == 2           \* pages of one chapter list
MaxPageItems == 2       \* chapters on one page
MaxSearchRequests == 3  \* search requests the catalog answers with 401 in a row, plus one

\* Durations (ms) the catalog may report for a chapter.
Durations == {0, 118, 500, 1000, 2000}

\* Chapter names.
Names == {<<"a">>, <<"b">>}

\* ------------------------------------------------------------------------
\* Binary64 arithmetic, as used by generate_ffmetadata (Python float).
\* A non-negative double x is held exactly as the natural number x * 2^64,
\* written as LIMBS digits in base 2^16, least significant first: every
\* double that occurs here is a multiple of 2^-62 and is below 2^31.
\* ------------------------------------------------------------------------
BASE == 65536
LIMBS == 6
FRAC == 4
MANT == 53

FZero == [i \in 1..LIMBS |-> 0]

\* float(n) for an integer 0 <= n < 2^31.
FFromInt(n) ==
    [i \in 1..LIMBS |-> IF i = FRAC + 1 THEN n % BASE
                        ELSE IF i = FRAC + 2 THEN n \div BASE
                        ELSE 0]

RECURSIVE AddLimbs(_, _, _, _)
AddLimbs(a, b, i, c) ==
    IF i > LIMBS THEN <<>>
    ELSE LET s == a[i] + b[i] + c
         IN  <<s % BASE>> \o AddLimbs(a, b, i + 1, s \div BASE)

RECURSIVE MulLimbs(_, _, _, _)
MulLimbs(a, m, i, c) ==
    IF i > LIMBS THEN <<>>
    ELSE LET s == a[i] * m + c
         IN  <<s % BASE>> \o MulLimbs(a, m, i + 1, s \div BASE)

\* Long division by the small number m, most significant digit first:
\* <<quotient, remainder>>.
RECURSIVE DivLimbs(_, _, _, _)
DivLimbs(a, m, i, rem) ==
    IF i = 0 THEN <<<<>>, rem>>
    ELSE LET cur == rem * BASE + a[i]
             lo  == DivLimbs(a, m, i - 1, cur % m)
         IN  <<lo[1] \o <<cur \div m>>, lo[2]>>

\* Number of significant bits.
BitLen(a) ==
    IF \A i \in 1..LIMBS : a[i] = 0 THEN 0
    ELSE LET t == CHOOSE i \in 1..LIMBS :
                      a[i] # 0 /\ \A j \in (i + 1)..LIMBS : a[j] = 0
             k == CHOOSE k \in 1..16 : a[t] \div (2 ^ (k - 1)) = 1
         IN  16 * (t - 1) + k

\* Bit number p (0 = least significant) of a.
BitOf(a, p) == (a[(p \div 16) + 1] \div (2 ^ (p % 16))) % 2

\* Whether a has a bit set below bit number p.
LowBits(a, p) ==
    \/ \E i \in 1..(p \div 16) : a[i] # 0
    \/ a[(p \div 16) + 1] % (2 ^ (p % 16)) # 0

\* a with the bits below bit number p cleared.
ClearLow(a, p) ==
    [i \in 1..LIMBS |->
        IF 16 * i <= p THEN 0
        ELSE IF 16 * (i - 1) >= p THEN a[i]
        ELSE a[i] - (a[i] % (2 ^ (p - 16 * (i - 1))))]

PowerOfTwo(p) ==
    [i \in 1..LIMBS |-> IF i = (p \div 16) + 1 THEN 2 ^ (p % 16) ELSE 0]

\* Round the exact value a + (a fraction below one unit that is non-zero
\* iff sticky) to MANT significant bits, ties to even.
RoundNearestEven(a, sticky) ==
    IF BitLen(a) <= MANT THEN a
    ELSE LET p    == BitLen(a) - MANT
             rest == sticky \/ LowBits(a, p - 1)
             up   == BitOf(a, p - 1) = 1 /\ (rest \/ BitOf(a, p) = 1)
             q    == ClearLow(a, p)
         IN  IF up THEN AddLimbs(q, PowerOfTwo(p), 1, 0) ELSE q

\* x + y on doubles.
FAdd(x, y) == RoundNearestEven(AddLimbs(x, y, 1, 0), FALSE)

\* x * 1000 on doubles.
FMul1000(x) == RoundNearestEven(MulLimbs(x, 1000, 1, 0), FALSE)

\* n / 1000.0 on doubles, n an integer 0 <= n < 2^31.
FDiv1000(n) ==
    LET qr == DivLimbs(FFromInt(n), 1000, LIMBS, 0)
    IN  RoundNearestEven(qr[1], qr[2] # 0)

\* int(x): truncation towards zero.
FToInt(x) == x[FRAC + 1] + BASE * x[FRAC + 2]

\* The literal 0.05.
Lit005 == FDiv1000(50)

\* ------------------------------------------------------------------------
\* Lines of an ffmetadata text
\* ------------------------------------------------------------------------
\* key=val; a numeric value is held in num; the section header and the
\* empty line have no value.
Line(k, v, n) == [key |-> k, val |-> v, num |-> n]

BlankLine == Line("", <<>>, 0)
ChapterHeader == Line("[CHAPTER]", <<>>, 0)

\* generate_ffmetadata: the text for one chapter, then the rest of the loop.
RECURSIVE ffmetadata_loop(_, _, _)
ffmetadata_loop(chapters, i, current_start) ==
    IF i > Len(chapters) THEN <<>>
    ELSE LET duration    == FDiv1000(chapters[i].duration_ms)
             current_end == FAdd(FAdd(current_start, duration), Lit005)
         IN  << BlankLine,
                ChapterHeader,
                Line("TIMEBASE", <<"1/1000">>, 0),
                Line("START", <<>>, FToInt(FMul1000(current_start))),
                Line("END", <<>>, FToInt(FMul1000(current_end))),
                Line("title", chapters[i].name, 0) >>
             \o ffmetadata_loop(chapters, i + 1, current_end)

generate_ffmetadata(chapters) == ffmetadata_loop(chapters, 1, FZero)

\* ------------------------------------------------------------------------
\* Text: a string is a sequence of tokens (characters, or longer pieces that
\* are never split, such as the suffix marker).
\* ------------------------------------------------------------------------
SUFFIX == <<"_chapterized">>
EXT == <<".m4b">>

\* sub in s (Python's substring test).
Contains(s, sub) ==
    \E i \in 1..(Len(s) - Len(sub) + 1) : SubSeq(s, i, i + Len(sub) - 1) = sub

\* str.strip()
RECURSIVE strip(_)
strip(s) ==
    IF s = <<>> THEN s
    ELSE IF s[1] = " " THEN strip(Tail(s))
    ELSE IF s[Len(s)] = " " THEN strip(SubSeq(s, 1, Len(s) - 1))
    ELSE s

\* The rest of the filename pattern, (?P<author>[^-]+) - (?P<title>.+),
\* matched at position p: the ends a of the author group that let the
\* whole rest match.
AuthorEnds(s, p) ==
    {a \in p..(Len(s) - 4) :
        /\ \A j \in p..a : s[j] # "-"
        /\ s[a + 1] = " " /\ s[a + 2] = "-" /\ s[a + 3] = " "}

\* The ends e of the optional group (?:\[.*?\] ) at the start of s.
PrefixEnds(s) ==
    {e \in 3..Len(s) : s[1] = "[" /\ s[e - 1] = "]" /\ s[e] = " "}

Max(S) == CHOOSE x \in S : \A y \in S : y <= x
Min(S) == CHOOSE x \in S : \A y \in S : x <= y

\* re.match(r"(?:\[.*?\] )?(?P<author>[^-]+) - (?P<title>.+)", stem):
\* the optional group is tried first, shortest bracket first; the author
\* group is greedy; the title group takes the rest.
filename_match(stem) ==
    LET good == {e \in PrefixEnds(stem) : AuthorEnds(stem, e + 1) # {}}
        p    == IF good # {} THEN Min(good) + 1 ELSE 1
        ends == AuthorEnds(stem, p)
    IN  IF ends = {} THEN [matched |-> FALSE, author |-> <<>>, title |-> <<>>]
        ELSE [matched |-> TRUE,
              author  |-> SubSeq(stem, p, Max(ends)),
              title   |-> SubSeq(stem, Max(ends) + 4, Len(stem))]

\* ------------------------------------------------------------------------
\* The metadata sidecar (FFMETADATAFILE) as a sequence of lines
\* ------------------------------------------------------------------------
CHAPTER == "[CHAPTER]"

\* The tokens of a line as written in the file.
LineText(l) ==
    IF l.key = "" THEN <<>>
    ELSE IF l.key = CHAPTER THEN <<CHAPTER>>
    ELSE <<l.key, "=">> \o l.val

HasChapterTag(l) == Contains(LineText(l), <<CHAPTER>>)

\* metadata_content.split('[CHAPTER]', 1)[0]
truncate_chapters(lines) ==
    LET hits == {i \in 1..Len(lines) : HasChapterTag(lines[i])}
    IN  IF hits = {} THEN lines
        ELSE LET i == Min(hits)
                 l == lines[i]
                 before == SubSeq(lines, 1, i - 1)
             IN  IF l.key = CHAPTER THEN before
                 ELSE LET k == Min({j \in 1..Len(l.val) : l.val[j] = CHAPTER})
                      IN  before \o <<[l EXCEPT !.val = SubSeq(l.val, 1, k - 1)]>>

\* str.rstrip()
RECURSIVE rstrip(_)
rstrip(s) ==
    IF s = <<>> THEN s
    ELSE IF s[Len(s)] = " " THEN rstrip(SubSeq(s, 1, Len(s) - 1))
    ELSE s

\* get_metadata_info, the loop over metadata_lines: the value of key in
\* the dict built from the lines that contain "=" (a later line replaces
\* an earlier one), <<>> when the key is not set. line.strip() leaves the
\* value without trailing blanks.
RECURSIVE metadata_dict_get(_, _, _)
metadata_dict_get(lines, key, n) ==
    IF n = 0 THEN <<>>
    ELSE IF lines[n].key = key /\ lines[n].key # CHAPTER /\ lines[n].key # ""
         THEN rstrip(lines[n].val)
    ELSE metadata_dict_get(lines, key, n - 1)

\* Variant of get_metadata_info that turns to the filename only when both
\* tags are missing.
get_metadata_info_both_missing(lines, stem) ==
    LET title  == metadata_dict_get(lines, "title", Len(lines))
        author == metadata_dict_get(lines, "artist", Len(lines))
        m      == filename_match(stem)
    IN  IF title = <<>> /\ author = <<>>
        THEN [author |-> IF m.matched THEN strip(m.author) ELSE <<>>,
              title  |-> IF m.matched THEN strip(m.title) ELSE <<>>,
              consulted |-> TRUE]
        ELSE [author |-> author, title |-> title, consulted |-> FALSE]

\* get_metadata_info: author and title from the sidecar lines, else from
\* the filename; consulted tells whether re.match was called.
get_metadata_info(lines, stem) ==
    LET title  == metadata_dict_get(lines, "title", Len(lines))
        author == metadata_dict_get(lines, "artist", Len(lines))
        m      == filename_match(stem)
    IN  IF title = <<>> \/ author = <<>>
        THEN [author |-> IF author # <<>> THEN author
                         ELSE IF m.matched THEN strip(m.author) ELSE <<>>,
              title  |-> IF title # <<>> THEN title
                         ELSE IF m.matched THEN strip(m.title) ELSE <<>>,
              consulted |-> TRUE]
        ELSE [author |-> author, title |-> title, consulted |-> FALSE]

\* Variant of the guard that looks at the end of the path only.
already_chapterized_endswith(input_path) ==
    /\ Len(input_path) >= Len(SUFFIX \o EXT)
    /\ SubSeq(input_path, Len(input_path) - Len(SUFFIX \o EXT) + 1, Len(input_path))
           = SUFFIX \o EXT

\* process_file: "_chapterized" in str(input_path)
already_chapterized(input_path) == Contains(input_path, SUFFIX)

\* process_file: chapters[:-1] if len(chapters) > 1 else chapters
chapters_to_append(chapters) ==
    IF Len(chapters) > 1 THEN SubSeq(chapters, 1, Len(chapters) - 1) ELSE chapters

\* Variant of the default output name that marks the file by a prefix.
default_output_filename_prefixed(stem) == <<"chapterized_">> \o stem \o EXT

\* process_file: input_path.stem + "_chapterized.m4b"
default_output_filename(stem) == stem \o SUFFIX \o EXT

\* Variant of the write that opens the sidecar with "w".
append_text_overwrite(existing, text) == text

\* append_chapters: open("a") and write, on the lines already in the file.
append_text(existing, text) == existing \o text

\* Variant of the call that leaves the accumulator out, so that the
\* default list of the parameter is used.
accumulator_omitted == "default"

\* fetch_chapter_metadata: the accumulator it hands to
\* fetch_extra_chapters, a new list ("fresh"); "default" stands for the
\* list object that is the default value of the parameter.
accumulator_passed == "fresh"

\* Variant of the accumulation that keeps the items of the last page only.
extend_items_replace(items, page) == page

\* fetch_extra_chapters: items += initial_response.get('items', [])
extend_items(items, page) == items \o page

\* ------------------------------------------------------------------------
\* Inputs: files, and what the catalog holds
\* ------------------------------------------------------------------------
DIR == <<"dir", "/">>
OUTDIR == <<"out", "/">>
EXPLICIT_OUTPUT == <<"dir", "/", "result", ".m4b">>

TagTitle == <<"Tag Title">>
TagArtist == <<"Tag Artist">>

OldChapter ==
    << ChapterHeader,
       Line("TIMEBASE", <<"1/1000">>, 0),
       Line("START", <<>>, 0),
       Line("END", <<>>, 9000),
       Line("title", <<"Old">>, 0) >>

\* What the dump tool writes for a file.
TagBlocks ==
    { << Line("title", TagTitle, 0), Line("artist", TagArtist, 0) >>,
      << Line("title", TagTitle, 0) >>,
      << Line("artist", TagArtist, 0) >>,
      << Line("encoder", <<"Lavf">>, 0) >>,
      << Line("title", TagTitle, 0), Line("artist", TagArtist, 0) >> \o OldChapter,
      << Line("artist", TagArtist, 0) >> \o OldChapter,
      << Line("title", <<"My", " ", CHAPTER, " ", "Book">>, 0),
         Line("artist", TagArtist, 0) >> }

\* File name stems.
Stems ==
    { << "A", " ", "-", " ", "T" >>,
      << "[", "x", "]", " ", "A", " ", "-", " ", "T" >>,
      << "T" >>,
      << " ", " ", "-", " ", "T" >>,
      << "A", " ", "-", " ", "T", "_chapterized", "2" >> }

InputFiles == [dir : {DIR}, stem : Stems, tags : TagBlocks]

NoInput == [dir |-> <<>>, stem |-> <<>>, tags |-> <<>>]

\* str(input_path), input_path.parent being f.dir and input_path.stem f.stem
PathOf(f) == f.dir \o f.stem \o EXT

\* The input files that are files written by the run itself: outs holds
\* the directory and stem of each of them.
FedBack(outs) == {[dir |-> o.dir, stem |-> o.stem, tags |-> t] : o \in outs, t \in TagBlocks}

\* The chapters of the catalog, by position in the chapter list.
CatalogNames ==
    << "c1", "c2", "c3", "c4", "c5", "c6", "c7", "c8", "c9", "c10", "c11", "c12" >>
CatalogDurations ==
    << 1000, 2000, 500, 118, 0, 1000, 2000, 500, 118, 0, 1000, 2000 >>

CatalogChapter(j) == [name |-> <<CatalogNames[j]>>, duration_ms |-> CatalogDurations[j]]

\* A chain of pages is given by the number of items on each page; page i
\* carries the cursor i + 1 unless it is the last one.
RECURSIVE SumSizes(_, _)
SumSizes(sizes, k) == IF k = 0 THEN 0 ELSE SumSizes(sizes, k - 1) + sizes[k]

PagesOf(sizes) ==
    [i \in 1..Len(sizes) |->
        [j \in 1..sizes[i] |-> CatalogChapter(SumSizes(sizes, i - 1) + j)]]

Chains == {PagesOf(sizes) : sizes \in UNION {[1..k -> 0..MaxPageItems] : k \in 1..MaxPages}}

\* HTTP statuses the catalog answers with.
Statuses == {200, 401, 500}

\* ------------------------------------------------------------------------
\* State
\* ------------------------------------------------------------------------
VARIABLES
    synth_chapters,     \* argument of a generate_ffmetadata call
    synth_out,          \* its result
    synth_done,         \* whether the call has returned
    nfiles,             \* main: len(input_files)
    args,               \* main: whether -o and -p were given
    overwrite_ch,       \* process_file argument
    dump_metadata_only, \* process_file argument
    idx,                \* main: position of the for loop in input_files
    pc,                 \* where the program is
    access_token,       \* SpotifyAudiobookManager.access_token (its number)
    sidecar,            \* the file dir/FFMETADATAFILE on disk
    input_file,         \* process_file: the file being processed
    output_path,        \* process_file: output_path
    identity,           \* process_file: author, title
    chain,              \* the pages the catalog holds for the audiobook found
    next_url,           \* fetch_extra_chapters: next_url (0: none)
    items,              \* fetch_extra_chapters: items
    default_items,      \* fetch_extra_chapters: the list that is the default of items
    outputs,            \* the output files the run has written (directory, stem)
    log                 \* what has been done for the current file

vars == <<synth_chapters, synth_out, synth_done, nfiles, args, overwrite_ch,
          dump_metadata_only, idx, pc, access_token, sidecar, input_file,
          output_path, identity, chain, next_url, items, default_items,
          outputs, log>>

synth_vars == <<synth_chapters, synth_out, synth_done>>
main_vars == <<nfiles, args, overwrite_ch, dump_metadata_only>>
file_vars == <<input_file, output_path>>
fetch_vars == <<chain, next_url, items, default_items>>

ChapterRecord == [name : Names, duration_ms : Durations]

SeqUpTo(S, n) == UNION {[1..k -> S] : k \in 0..n}

NoFile == [exists |-> FALSE, lines |-> <<>>]
FileWith(lines) == [exists |-> TRUE, lines |-> lines]

NoIdentity == [author |-> <<>>, title |-> <<>>, consulted |-> FALSE]

\* Nothing done yet for the current file.
EmptyLog ==
    [ extract_calls   |-> 0,       \* runs of the dump tool
      extract_ok      |-> FALSE,   \* the dump tool exited with 0
      extracted       |-> <<>>,    \* the sidecar lines dump_input_metadata left
      resolve_calls   |-> 0,       \* calls of get_metadata_info
      resolved        |-> FALSE,   \* get_metadata_info returned
      block_read      |-> <<>>,    \* the lines get_metadata_info read
      search_statuses |-> <<>>,    \* status of each search request
      refreshes       |-> 0,       \* calls of get_api_token
      page_requests   |-> <<>>,    \* url (page number) and status of each chapters request
      commit_calls    |-> 0,       \* calls of append_chapters
      appended        |-> <<>>,    \* the chapters passed to append_chapters
      remuxed         |-> <<>>,    \* the sidecar lines handed to the remux run
      outcome         |-> "none" ]

\* ------------------------------------------------------------------------
\* main and process_file
\* ------------------------------------------------------------------------
\* The state of main when it enters the for loop: the client holds its
\* first token, -o is given with a single input file only, and main passes
\* overwrite_ch=True and dump_metadata_only=False. The entries of
\* input_files are drawn when the loop reaches them.
Init ==
    /\ synth_chapters = <<>>
    /\ synth_out = <<>>
    /\ synth_done = TRUE
    /\ nfiles \in 1..MaxFiles
    /\ args \in [output : BOOLEAN, dirout : BOOLEAN]
    /\ args.output => nfiles = 1
    /\ overwrite_ch = TRUE
    /\ dump_metadata_only = FALSE
    /\ idx = 1
    /\ pc = "loop"
    /\ access_token = 1
    /\ sidecar = NoFile
    /\ input_file = NoInput
    /\ output_path = <<>>
    /\ identity = NoIdentity
    /\ chain = <<>>
    /\ next_url = 0
    /\ items = <<>>
    /\ default_items = <<>>
    /\ outputs = {}
    /\ log = EmptyLog

\* process_file returns: the for loop of main goes on with the next file.
Return(outcome, l) ==
    /\ log' = [l EXCEPT !.outcome = outcome]
    /\ idx' = idx + 1
    /\ pc' = "loop"

\* An exception leaves process_file and main, which catch nothing.
Raise(l) ==
    /\ log' = [l EXCEPT !.outcome = "ERROR"]
    /\ pc' = "crashed"
    /\ UNCHANGED idx

\* main: the next iteration of the for loop calls process_file, which
\* runs up to the construction of the MetadataManager.
ProcessFileStart(f) ==
    /\ pc = "loop"
    /\ idx <= nfiles
    /\ input_file' = f
    /\ identity' = NoIdentity
    /\ chain' = <<>>
    /\ next_url' = 0
    /\ items' = <<>>
    /\ IF already_chapterized(PathOf(f))
       THEN /\ Return("SKIP_processed", EmptyLog)
            /\ output_path' = <<>>
       ELSE /\ output_path' =
                 IF args.output THEN EXPLICIT_OUTPUT
                 ELSE IF args.dirout THEN OUTDIR \o default_output_filename(f.stem)
                 ELSE f.dir \o default_output_filename(f.stem)
            /\ log' = EmptyLog
            /\ pc' = "extract"
            /\ UNCHANGED idx
    /\ UNCHANGED <<synth_vars, main_vars, access_token, sidecar, default_items, outputs>>

\* main: the for loop is over.
LoopExit ==
    /\ pc = "loop"
    /\ idx > nfiles
    /\ pc' = "exit"
    /\ UNCHANGED <<synth_vars, main_vars, idx, access_token, sidecar, file_vars,
                   identity, fetch_vars, outputs, log>>

\* MetadataManager.__init__: dump_input_metadata with the exit status of
\* the dump tool; the exception of a failed run is caught and reported.
\* A failed run leaves the sidecar on disk as it was.
Extract(ok) ==
    /\ pc = "extract"
    /\ sidecar' = IF ~ok THEN sidecar
                  ELSE IF overwrite_ch THEN FileWith(truncate_chapters(input_file.tags))
                  ELSE FileWith(input_file.tags)
    /\ LET l == [log EXCEPT !.extract_calls = @ + 1, !.extract_ok = ok,
                            !.extracted = IF ok THEN sidecar'.lines ELSE <<>>]
       IN  IF dump_metadata_only
           THEN Return("DUMPED", l)
           ELSE /\ log' = l
                /\ pc' = "resolve"
                /\ UNCHANGED idx
    /\ UNCHANGED <<synth_vars, main_vars, access_token, file_vars, identity, fetch_vars,
                   outputs>>

\* process_file: get_metadata_info and the test of its result.
Resolve ==
    /\ pc = "resolve"
    /\ LET l == [log EXCEPT !.resolve_calls = @ + 1]
       IN  IF ~sidecar.exists
           THEN /\ Raise(l)
                /\ UNCHANGED identity
           ELSE LET r  == get_metadata_info(sidecar.lines, input_file.stem)
                    l2 == [l EXCEPT !.resolved = TRUE, !.block_read = sidecar.lines]
                IN  /\ identity' = r
                    /\ IF r.author = <<>> \/ r.title = <<>>
                       THEN Return("SKIP_incomplete", l2)
                       ELSE /\ log' = l2
                            /\ pc' = "search"
                            /\ UNCHANGED idx
    /\ UNCHANGED <<synth_vars, main_vars, access_token, sidecar, file_vars, fetch_vars,
                   outputs>>

\* search_audiobook: one search request and what follows from its status.
\* A 401 makes the client call get_api_token and search again.
SearchRequest(status) ==
    /\ pc = "search"
    /\ LET l == [log EXCEPT !.search_statuses = Append(@, status)]
       IN  IF status = 401
           THEN /\ Len(l.search_statuses) < MaxSearchRequests
                /\ \E token_status \in {200, 500} :
                      LET l2 == [l EXCEPT !.refreshes = @ + 1]
                      IN  IF token_status = 200
                          THEN /\ access_token' = access_token + 1
                               /\ log' = l2
                               /\ pc' = "search"
                               /\ UNCHANGED idx
                          ELSE /\ Raise(l2)
                               /\ UNCHANGED access_token
           ELSE /\ UNCHANGED access_token
                /\ IF status = 200
                   THEN \E found \in BOOLEAN :
                           IF found
                           THEN /\ log' = l
                                /\ pc' = "fetch"
                                /\ UNCHANGED idx
                           ELSE Return("SKIP_nomatch", l)
                   ELSE Return("SKIP_nomatch", l)
    /\ UNCHANGED <<synth_vars, main_vars, sidecar, file_vars, identity, fetch_vars,
                   outputs>>

\* fetch_extra_chapters after a page has arrived: the items of the page
\* are added in place (so also to the default list when the accumulator is
\* that list) and the cursor of the page is taken.
FollowPage(c, n, acc) ==
    /\ chain' = c
    /\ items' = extend_items(acc, c[n])
    /\ default_items' = IF accumulator_passed = "default" THEN items' ELSE default_items
    /\ next_url' = IF n < Len(c) THEN n + 1 ELSE 0
    /\ pc' = IF n < Len(c) THEN "fetch_next" ELSE "commit"
    /\ UNCHANGED idx

\* fetch_chapter_metadata: the first chapters request; c is the chain of
\* pages the catalog holds.
FetchChapters(status, c) ==
    /\ pc = "fetch"
    /\ LET l == [log EXCEPT !.page_requests = Append(@, [url |-> 1, status |-> status])]
       IN  IF status = 200
           THEN /\ log' = l
                /\ FollowPage(c, 1, IF accumulator_passed = "default"
                                    THEN default_items ELSE <<>>)
           ELSE /\ Raise(l)
                /\ UNCHANGED fetch_vars
    /\ UNCHANGED <<synth_vars, main_vars, access_token, sidecar, file_vars, identity,
                   outputs>>

\* Variant of the page follower that, when a next page cannot be had,
\* returns the items it has so far.
FetchNext_partial(status) ==
    /\ pc = "fetch_next"
    /\ LET l == [log EXCEPT !.page_requests = Append(@, [url |-> next_url, status |-> status])]
       IN  IF status = 200
           THEN /\ log' = l
                /\ FollowPage(chain, next_url, items)
           ELSE /\ log' = l
                /\ pc' = "commit"
                /\ UNCHANGED <<fetch_vars, idx>>
    /\ UNCHANGED <<synth_vars, main_vars, access_token, sidecar, file_vars, identity,
                   outputs>>

\* fetch_extra_chapters: fetch_from_url(next_url) and the recursive call.
FetchNext(status) ==
    /\ pc = "fetch_next"
    /\ LET l == [log EXCEPT !.page_requests = Append(@, [url |-> next_url, status |-> status])]
       IN  IF status = 200
           THEN /\ log' = l
                /\ FollowPage(chain, next_url, items)
           ELSE /\ Raise(l)
                /\ UNCHANGED fetch_vars
    /\ UNCHANGED <<synth_vars, main_vars, access_token, sidecar, file_vars, identity,
                   outputs>>

\* process_file: the trim of the last chapter and append_chapters, with the
\* exit status of the remux run.
Commit(ok) ==
    /\ pc = "commit"
    /\ LET chapters == chapters_to_append(items)
           written  == append_text(IF sidecar.exists THEN sidecar.lines ELSE <<>>,
                                   generate_ffmetadata(chapters))
           l == [log EXCEPT !.commit_calls = @ + 1,
                            !.appended = chapters,
                            !.remuxed = written]
       IN  IF ok
           THEN /\ sidecar' = NoFile
                /\ outputs' = outputs \cup
                       {[dir  |-> SubSeq(output_path, 1, 2),
                         stem |-> SubSeq(output_path, 3, Len(output_path) - 1)]}
                /\ Return("COMMITTED", l)
           ELSE /\ sidecar' = FileWith(written)
                /\ UNCHANGED outputs
                /\ Raise(l)
    /\ UNCHANGED <<synth_vars, main_vars, access_token, file_vars, identity, fetch_vars>>

Next ==
    \/ \E f \in InputFiles \cup FedBack(outputs) : ProcessFileStart(f)
    \/ LoopExit
    \/ \E ok \in BOOLEAN : Extract(ok)
    \/ Resolve
    \/ \E status \in Statuses : SearchRequest(status)
    \/ \E status \in Statuses, c \in Chains : FetchChapters(status, c)
    \/ \E status \in Statuses : FetchNext(status)
    \/ \E ok \in BOOLEAN : Commit(ok)

Spec == Init /\ [][Next]_vars

\* process_file called once by a program other than main, which chooses
\* overwrite_ch and dump_metadata_only (main fixes them to True and False).
FileInit ==
    /\ synth_chapters = <<>>
    /\ synth_out = <<>>
    /\ synth_done = TRUE
    /\ nfiles = 1
    /\ args \in [output : BOOLEAN, dirout : BOOLEAN]
    /\ overwrite_ch \in BOOLEAN
    /\ dump_metadata_only \in BOOLEAN
    /\ idx = 1
    /\ pc = "loop"
    /\ access_token = 1
    /\ sidecar = NoFile
    /\ input_file = NoInput
    /\ output_path = <<>>
    /\ identity = NoIdentity
    /\ chain = <<>>
    /\ next_url = 0
    /\ items = <<>>
    /\ default_items = <<>>
    /\ outputs = {}
    /\ log = EmptyLog

FileSpec == FileInit /\ [][Next]_vars

\* ------------------------------------------------------------------------
\* generate_ffmetadata on its own: one call on a bounded chapter list
\* ------------------------------------------------------------------------
SynthInit ==
    /\ synth_chapters \in SeqUpTo(ChapterRecord, MaxChapters)
    /\ synth_out = <<>>
    /\ synth_done = FALSE
    /\ nfiles = 0
    /\ args = [output |-> FALSE, dirout |-> FALSE]
    /\ overwrite_ch = TRUE
    /\ dump_metadata_only = FALSE
    /\ idx = 1
    /\ pc = "synthesize"
    /\ access_token = 1
    /\ sidecar = NoFile
    /\ input_file = NoInput
    /\ output_path = <<>>
    /\ identity = NoIdentity
    /\ chain = <<>>
    /\ next_url = 0
    /\ items = <<>>
    /\ default_items = <<>>
    /\ outputs = {}
    /\ log = EmptyLog

Synthesize ==
    /\ pc = "synthesize"
    /\ ~synth_done
    /\ synth_out' = generate_ffmetadata(synth_chapters)
    /\ synth_done' = TRUE
    /\ UNCHANGED <<synth_chapters, main_vars, idx, pc, access_token, sidecar,
                   file_vars, identity, fetch_vars, outputs, log>>

SynthNext == Synthesize

SynthSpec == SynthInit /\ [][SynthNext]_vars

\* ------------------------------------------------------------------------
\* Reading markers back from generated text
\* ------------------------------------------------------------------------
NumMarkers(lines) == Cardinality({i \in 1..Len(lines) : lines[i] = ChapterHeader})

\* The i-th marker of a text made only of generated chapter sections.
MarkerAt(lines, i) ==
    [start |-> lines[6 * (i - 1) + 4].num,
     end   |-> lines[6 * (i - 1) + 5].num,
     title |-> lines[6 * (i - 1) + 6].val]

\* Sum of (d_j + 50) over the first k chapters.
RECURSIVE SumGap(_, _)
SumGap(chapters, k) ==
    IF k = 0 THEN 0 ELSE SumGap(chapters, k - 1) + chapters[k].duration_ms + 50

\* The marker the i-th chapter is to get.
ExpectedMarker(chapters, i) ==
    [start |-> SumGap(chapters, i - 1),
     end   |-> SumGap(chapters, i - 1) + chapters[i].duration_ms + 50,
     title |-> chapters[i].name]

\* text holds exactly the expected markers of chapters, in order.
MarkersAsExpected(text, chapters) ==
    /\ Len(text) = 6 * Len(chapters)
    /\ NumMarkers(text) = Len(chapters)
    /\ \A i \in 1..Len(chapters) : MarkerAt(text, i) = ExpectedMarker(chapters, i)

\* ------------------------------------------------------------------------
\* Properties
\* ------------------------------------------------------------------------

\* C1: for every chapter list d_1..d_n, generate_ffmetadata emits exactly n
\* markers in input order, the i-th with START = sum over j < i of
\* (d_j + 50) and END = START + d_i + 50 (so the first starts at 0, each
\* start is the previous end, start < end); the empty list gives no marker.
C1_MarkersExact ==
    synth_done => MarkersAsExpected(synth_out, synth_chapters)

\* C2: an error raised while processing file k does not stop the batch:
\* the run never ends on an error while later files are still unprocessed.
C2_BatchSurvivesFileError ==
    pc = "crashed" => idx >= nfiles

\* C3: when the dump tool fails for a file, nothing more is done for that
\* file: no identity resolution, no search, no chapter request, no commit,
\* and the run goes on.
C3_FailedExtractionSkips ==
    (log.extract_calls > 0 /\ ~log.extract_ok) =>
        /\ log.resolve_calls = 0
        /\ log.search_statuses = <<>>
        /\ log.page_requests = <<>>
        /\ log.commit_calls = 0
        /\ pc # "crashed"

\* C4: one search call issues at most two search requests and refreshes
\* the token at most once.
C4_SearchRetriesOnce ==
    Len(log.search_statuses) <= 2 /\ log.refreshes <= 1

\* C5: a chapters request (first page or next page) answered with 401 is
\* retried once after a token refresh; the fetch fails on a 401 only when
\* that 401 answers the retry of the same request.
C5_ChapterRequestRetriedOn401 ==
    LET r == log.page_requests
        n == Len(r)
    IN  (pc = "crashed" /\ n > 0 /\ log.commit_calls = 0 /\ r[n].status = 401) =>
            /\ n > 1
            /\ r[n - 1] = r[n]
            /\ log.refreshes > 0

\* C6: a search answered with a status other than 200 and 401 is an
\* error, never the "no catalog match" skip.
C6_HttpFailureIsNotNoMatch ==
    log.outcome = "SKIP_nomatch" =>
        log.search_statuses[Len(log.search_statuses)] = 200

\* C7: a file whose name contains the suffix marker ends at START as a
\* skip, with no run of the external tool and no catalog request,
\* whatever the output arguments are.
C7_ProcessedFileUntouched ==
    (input_file # NoInput /\ Contains(input_file.stem \o EXT, SUFFIX)) =>
        /\ log = [EmptyLog EXCEPT !.outcome = "SKIP_processed"]
        /\ pc \in {"loop", "exit"}
        /\ output_path = <<>>

C7_Witness ==
    /\ input_file # NoInput
    /\ Contains(input_file.stem \o EXT, SUFFIX)
    /\ log.outcome = "SKIP_processed"
    /\ args.dirout
    /\ idx = 3

RECURSIVE Flatten(_)
Flatten(pages) == IF pages = <<>> THEN <<>> ELSE Head(pages) \o Flatten(Tail(pages))

\* C8: for a chain of pages p_1..p_k, all answered, the fetch requests
\* each page exactly once in cursor order and returns the items of p_1,
\* p_2, ..., p_k concatenated in that order.
C8_PagesConcatenated ==
    (pc = "commit" \/ log.commit_calls > 0) =>
        /\ items = Flatten(chain)
        /\ log.page_requests = [i \in 1..Len(chain) |-> [url |-> i, status |-> 200]]

C8_Witness ==
    /\ pc = "commit"
    /\ Len(chain) = 2
    /\ Len(chain[1]) = 2
    /\ Len(chain[2]) = 1
    /\ Len(items) = 3

\* The attribute key of the global section of a block (the lines before
\* the first chapter section), <<>> when absent or empty.
GlobalTag(lines, key) ==
    LET heads  == {i \in 1..Len(lines) : lines[i].key = CHAPTER}
        global == IF heads = {} THEN Len(lines) ELSE Min(heads) - 1
        hits   == {i \in 1..global : lines[i].key = key}
    IN  IF hits = {} THEN <<>> ELSE rstrip(lines[Max(hits)].val)

\* C9: author and title are filled independently, the tag first and the
\* filename second; with both tags the filename is not consulted; the file
\* is skipped as incomplete, without any search, exactly when a field is
\* still unset.
C9_FieldwiseFallback ==
    log.resolved =>
        LET tag_title  == GlobalTag(log.block_read, "title")
            tag_artist == GlobalTag(log.block_read, "artist")
            m          == filename_match(input_file.stem)
            incomplete == identity.author = <<>> \/ identity.title = <<>>
        IN  /\ identity.title = IF tag_title # <<>> THEN tag_title
                                ELSE IF m.matched THEN strip(m.title) ELSE <<>>
            /\ identity.author = IF tag_artist # <<>> THEN tag_artist
                                 ELSE IF m.matched THEN strip(m.author) ELSE <<>>
            /\ identity.consulted = ~(tag_title # <<>> /\ tag_artist # <<>>)
            /\ incomplete <=> log.outcome = "SKIP_incomplete"
            /\ incomplete => /\ log.search_statuses = <<>>
                             /\ log.page_requests = <<>>
                             /\ log.commit_calls = 0
            /\ ~incomplete => (pc = "search" \/ log.search_statuses # <<>>)

C9_Witness ==
    /\ log.resolved
    /\ identity.title = TagTitle
    /\ identity.author = <<"A">>
    /\ GlobalTag(log.block_read, "artist") = <<>>
    /\ Len(log.search_statuses) = 1

\* C10: the commit gets the markers of the fetched chapters without the
\* last one when more than one chapter was fetched, and of all of them
\* otherwise (durations 1000, 2000, 500 give [0,1050], [1050,3100]).
C10_TrimmedMarkersCommitted ==
    log.commit_calls > 0 =>
        LET n     == Len(items)
            kept  == IF n > 1 THEN n - 1 ELSE n
            given == SubSeq(items, 1, kept)
            text  == SubSeq(log.remuxed, Len(log.block_read) + 1, Len(log.remuxed))
        IN  /\ log.appended = given
            /\ MarkersAsExpected(text, given)
\* The lines of a block that precede its first chapter section, which
\* begins at the first line that is the section header.
BeforeFirstSection(lines) ==
    LET heads == {n \in 1..Len(lines) : lines[n] = ChapterHeader}
    IN  IF heads = {} THEN lines
        ELSE SubSeq(lines, 1, Min(heads) - 1)

\* C11: after a successful extraction the sidecar holds, with truncation
\* requested, exactly the lines of the extracted block that precede its
\* first chapter section (the whole block when it has no chapter section),
\* and without truncation requested the whole block.
C11_TruncationBeforeFirstSection ==
    log.extract_ok =>
        log.extracted = IF overwrite_ch THEN BeforeFirstSection(input_file.tags)
                        ELSE input_file.tags

\* C12: the block handed to the remux step is the sidecar as extraction
\* (and truncation, when requested) left it, followed by the generated
\* sections of the chapters in their order: the lines that were there,
\* global attributes and chapter sections alike, come first and unchanged,
\* and the sections are appended once per file.
C12_MergeAppendsOnly ==
    log.commit_calls > 0 =>
        /\ log.commit_calls = 1
        /\ log.extract_ok => log.block_read = log.extracted
        /\ log.remuxed = log.block_read \o generate_ffmetadata(log.appended)
        /\ NumMarkers(log.remuxed) = NumMarkers(log.block_read) + Len(log.appended)

\* A commit on a block that kept a chapter section of its own.
C12_Witness ==
    /\ log.outcome = "COMMITTED"
    /\ ~overwrite_ch
    /\ log.extract_ok
    /\ NumMarkers(log.block_read) = 1
    /\ Len(log.appended) = 2

\* C13: the resolved title is the title of the global section of the block
\* that was read, or the title of the filename when the global section has
\* none; a title= line of a chapter section is never the resolved title.
C13_TitleFromGlobalSection ==
    log.resolved =>
        LET tag == GlobalTag(log.block_read, "title")
            m   == filename_match(input_file.stem)
        IN  identity.title = IF tag # <<>> THEN tag
                             ELSE IF m.matched THEN strip(m.title) ELSE <<>>

\* The chapter requests of the current file that were not answered with 200.
FailedPages == {n \in 1..Len(log.page_requests) : log.page_requests[n].status # 200}

\* C14: when a chapter request of a file fails, the first or a later one,
\* the fetch ends there with an error instead of a list, no further page is
\* requested and append_chapters is never called for the file: a commit
\* is only ever made with the items of all the pages of the list.
C14_FailedPageMeansNoCommit ==
    /\ FailedPages # {} =>
          /\ FailedPages = {Len(log.page_requests)}
          /\ log.outcome = "ERROR"
          /\ pc = "crashed"
          /\ log.commit_calls = 0
          /\ log.remuxed = <<>>
    /\ log.commit_calls > 0 =>
          /\ Len(log.page_requests) = Len(chain)
          /\ log.appended = chapters_to_append(Flatten(chain))

\* The second page of a list fails after the first page brought items.
C14_Witness ==
    /\ Len(log.page_requests) = 2
    /\ FailedPages = {2}
    /\ items # <<>>
    /\ Len(chain) = 2
    /\ log.commit_calls = 0

\* C15: for the current file each step has run only after every earlier
\* step succeeded, in the order extract, resolve, search, fetch, commit:
\* the identity is resolved only after a successful extraction, a search
\* is made only with a complete identity, chapters are requested only
\* after a search answered 200, the commit is made only after every page
\* arrived, and at most once; a skip for an incomplete identity has no
\* search, fetch or commit, and a skip for no match no fetch and no commit.
C15_StepsInOrder ==
    /\ log.resolve_calls > 0 => log.extract_calls = 1 /\ log.extract_ok
    /\ log.search_statuses # <<>> =>
          log.resolved /\ identity.author # <<>> /\ identity.title # <<>>
    /\ log.page_requests # <<>> =>
          /\ log.search_statuses # <<>>
          /\ log.search_statuses[Len(log.search_statuses)] = 200
    /\ log.commit_calls > 0 =>
          /\ log.page_requests # <<>>
          /\ \A n \in 1..Len(log.page_requests) : log.page_requests[n].status = 200
    /\ log.commit_calls <= 1
    /\ log.extract_calls <= 1 /\ log.resolve_calls <= 1
    /\ log.outcome = "SKIP_incomplete" =>
          /\ log.search_statuses = <<>>
          /\ log.page_requests = <<>>
          /\ log.commit_calls = 0
    /\ log.outcome = "SKIP_nomatch" =>
          /\ log.page_requests = <<>>
          /\ log.commit_calls = 0

\* C16: the block a file's identity is resolved from, and the block that is
\* committed for it, is the one the successful extraction of that same file
\* wrote: the sidecar another file left in the directory is never read.
C16_SidecarOfThisFile ==
    /\ log.resolved => log.extract_ok /\ log.block_read = log.extracted
    /\ log.commit_calls > 0 =>
          /\ log.extract_ok
          /\ SubSeq(log.remuxed, 1, Len(log.extracted)) = log.extracted
          /\ Len(log.remuxed) = Len(log.extracted) + 6 * Len(log.appended)

\* The current input file is a file the run wrote earlier.
IsFedBack == [dir |-> input_file.dir, stem |-> input_file.stem] \in outputs

\* C17: a default output path, in the input's directory or in the output
\* directory, holds the marker "_chapterized", and an input file that is
\* a default output of the run is skipped at the start: nothing is
\* extracted, searched or committed for it.
C17_DefaultOutputIsSkipped ==
    /\ (output_path # <<>> /\ ~args.output) =>
          /\ Contains(output_path, SUFFIX)
          /\ output_path = (IF args.dirout THEN OUTDIR ELSE input_file.dir)
                               \o input_file.stem \o SUFFIX \o EXT
    /\ (IsFedBack /\ ~args.output) =>
          /\ log = [EmptyLog EXCEPT !.outcome = "SKIP_processed"]
          /\ pc \in {"loop", "exit"}

\* A default output of the first file has come back as the second input and
\* has been skipped.
C17_Witness ==
    /\ IsFedBack
    /\ ~args.output
    /\ idx = 3
    /\ log.outcome = "SKIP_processed"
    /\ input_file.stem[Len(input_file.stem)] = "_chapterized"

\* The chapter requests of the current file that were answered with 200.
PagesRetrieved == Cardinality({n \in 1..Len(log.page_requests) : log.page_requests[n].status = 200})

\* C18: whatever fetches the client made before, the list a fetch is
\* building or has returned holds exactly the items of the pages it
\* retrieved itself, in order, and the default list of the accumulator
\* parameter never takes up an item.
C18_FetchesIndependent ==
    /\ default_items = <<>>
    /\ PagesRetrieved > 0 =>
          /\ PagesRetrieved <= Len(chain)
          /\ items = Flatten(SubSeq(chain, 1, PagesRetrieved))

\* A second fetch of the batch has returned a list of two pages after the
\* first file's fetch returned another list.
C18_Witness ==
    /\ idx = 2
    /\ outputs # {}
    /\ pc = "commit"
    /\ PagesRetrieved = 2
    /\ Len(items) >= 2
    /\ log.commit_calls = 0

====
